---- MODULE Spec2Model ----
(***************************************************************************)
(* Webflow form validation (src/src/utils/validateForm.ts).                *)
(*                                                                         *)
(* The file holds two revisions of the validator one after the other:     *)
(*   rev "B"  lines   1-250  (touched flag, forceShowErrors, no checkbox   *)
(*                            mirroring)                                   *)
(*   rev "C"  lines 252-575  (latest: data-checked mirroring, deferred     *)
(*                            checkbox re-validation)                      *)
(* One form of the page is modelled: its wrappers in document order, the   *)
(* DOM state the validator reads and writes, the browser's task queue of   *)
(* zero-delay timers, and one action per event listener.                   *)
(*                                                                         *)
(* Strings are sequences of one-character strings.                         *)
(***************************************************************************)
EXTENDS Integers, Sequences, FiniteSets, TLC

VARIABLES
    rev,          \* which revision of the validator is loaded on the page
    cfg,          \* the form's static markup: wrappers, attributes, elements
    dom,          \* the mutable DOM state of the form
    timers,       \* pending setTimeout(..., 0) callbacks, FIFO, by wrapper
    pc,           \* "load" before validateForms() has run, "ready" after
    lastEvent,    \* the event whose handler ran last (history)
    forceShown,   \* a submit event has been dispatched since load (history)
    submitResult  \* outcome of the last submit event (history)

vars == <<rev, cfg, dom, timers, pc, lastEvent, forceShown, submitResult>>

----------------------------------------------------------------------------
(* Bounds *)

\* at most this many zero-delay callbacks wait in the task queue
MaxTimers == 2

----------------------------------------------------------------------------
(* Characters and strings *)

Digits == {"0", "1", "2", "3", "4", "5", "6", "7", "8", "9"}

\* \s of the regular expressions, and what String.prototype.trim removes
Whitespace == {" "}

DigitValue(c) ==
    CASE c = "0" -> 0 [] c = "1" -> 1 [] c = "2" -> 2 [] c = "3" -> 3
      [] c = "4" -> 4 [] c = "5" -> 5 [] c = "6" -> 6 [] c = "7" -> 7
      [] c = "8" -> 8 [] c = "9" -> 9

RECURSIVE trimStart(_)
trimStart(s) ==
    IF s # <<>> /\ Head(s) \in Whitespace THEN trimStart(Tail(s)) ELSE s

RECURSIVE trimEnd(_)
trimEnd(s) ==
    IF s # <<>> /\ s[Len(s)] \in Whitespace
    THEN trimEnd(SubSeq(s, 1, Len(s) - 1))
    ELSE s

\* String.prototype.trim
trim(s) == trimEnd(trimStart(s))

\* s.replace(/[^<class>]/g, ''): the characters of s that are in the class,
\* in order
RECURSIVE keepOnly(_, _)
keepOnly(s, class) ==
    IF s = <<>> THEN <<>>
    ELSE IF Head(s) \in class THEN <<Head(s)>> \o keepOnly(Tail(s), class)
    ELSE keepOnly(Tail(s), class)

\* number of leading characters of s that are decimal digits
RECURSIVE digitRun(_)
digitRun(s) ==
    IF s # <<>> /\ Head(s) \in Digits THEN 1 + digitRun(Tail(s)) ELSE 0

RECURSIVE decimalValue(_, _)
decimalValue(s, acc) ==
    IF s = <<>> THEN acc
    ELSE decimalValue(Tail(s), 10 * acc + DigitValue(Head(s)))

\* the number NaN: every comparison with it is false
NaN == [nan |-> TRUE, n |-> 0]

Num(k) == [nan |-> FALSE, n |-> k]

\* parseInt(s, 10): leading whitespace skipped, an optional sign, then the
\* longest run of digits; NaN when that run is empty
parseInt(s) ==
    LET t == trimStart(s)
        signed == t # <<>> /\ Head(t) \in {"+", "-"}
        u == IF signed THEN Tail(t) ELSE t
        k == digitRun(u)
        m == decimalValue(SubSeq(u, 1, k), 0)
    IN  IF k = 0 THEN NaN
        ELSE IF signed /\ Head(t) = "-" THEN Num(0 - m)
        ELSE Num(m)

\* a > b on JavaScript numbers
GreaterThan(a, b) == ~a.nan /\ ~b.nan /\ a.n > b.n

----------------------------------------------------------------------------
(* Field rules *)

\* minimum number of digits of a phone number, rev C
PhoneMinDigitsC == 5

\* minimum number of digits of a phone number, rev B
PhoneMinDigitsB == 10

\* input.getAttribute('input-validation-length') || '0'
attrOrZero(attr) == IF attr = <<>> THEN <<"0">> ELSE attr

\* validateLength with >= in place of >
validateLength_atLeast(value, minLength) ==
    ~minLength.nan /\ Len(trim(value)) >= minLength.n

\* validateLength: input.value.trim().length > minLength
validateLength(value, minLength) ==
    GreaterThan(Num(Len(trim(value))), minLength)

\* validatePhone, rev C, counting every character instead of the digits
validatePhoneC_countsAll(value) == Len(value) >= PhoneMinDigitsC

\* validatePhone, rev C: value.replace(/\D/g, '').length >= 5
validatePhoneC(value) ==
    Len(keepOnly(value, Digits)) >= PhoneMinDigitsC

\* validatePhone, rev B: value.replace(/\D/g, '').length >= 10
validatePhoneB(value) ==
    Len(keepOnly(value, Digits)) >= PhoneMinDigitsB

\* validatePhone of revision r
validatePhone(r, value) ==
    IF r = "C" THEN validatePhoneC(value) ELSE validatePhoneB(value)

\* [^\s@]+ matches the whole of s
NoSpaceNoAt(s) ==
    /\ s # <<>>
    /\ \A i \in 1..Len(s) : s[i] \notin (Whitespace \cup {"@"})

\* /^[^\s@]+@[^\s@]+\.[^\s@]+$/.test(s)
emailRegex(s) ==
    \E i \in 1..Len(s) : \E j \in 1..Len(s) :
        /\ i < j
        /\ s[i] = "@"
        /\ s[j] = "."
        /\ NoSpaceNoAt(SubSeq(s, 1, i - 1))
        /\ NoSpaceNoAt(SubSeq(s, i + 1, j - 1))
        /\ NoSpaceNoAt(SubSeq(s, j + 1, Len(s)))

\* validateEmail that tests the value as typed, untrimmed
validateEmail_untrimmed(value) == emailRegex(value)

\* validateEmail: emailRegex.test(input.value.trim())
validateEmail(value) == emailRegex(trim(value))

\* the phone input listener's value.replace(/[^\d+\-()\s.]/g, '')
PhoneAllowed == Digits \cup {"+", "-", "(", ")", "."} \cup Whitespace

\* sanitizePhone whose character class has lost \d
sanitizePhone_dropsDigits(value) == keepOnly(value, PhoneAllowed \ Digits)

sanitizePhone(value) == keepOnly(value, PhoneAllowed)

----------------------------------------------------------------------------
(* The form's markup.  A wrapper (.input-wrapper) is described by          *)
(*   hasInput      wrapper.querySelector('input, textarea') finds a node   *)
(*   type          the input's type                                        *)
(*   hasLength     input-validation-length is declared; lengthAttr: value  *)
(*   hasPhone      input-validation-phone is declared                      *)
(*   hasCheckbox   input-validation-checkbox is declared                   *)
(*   hasLabel      the wrapper holds an .input-error-label                 *)
(*   hasErrorText  the label holds [input-error-text] with non-empty text  *)
(*   hasVisual     the wrapper holds a .w-checkbox-input element           *)
(*   visualIsCheckbox  that element also carries the class "checkbox"      *)
(*   hasCbLabel    the wrapper holds a .w-checkbox label                   *)
(***************************************************************************)

Wrapper(type, hasLength, lengthAttr, hasPhone, hasCheckbox, hasLabel) ==
    [hasInput |-> TRUE, type |-> type,
     hasLength |-> hasLength, lengthAttr |-> lengthAttr,
     hasPhone |-> hasPhone, hasCheckbox |-> hasCheckbox,
     hasLabel |-> hasLabel, hasErrorText |-> hasLabel,
     hasVisual |-> type = "checkbox", visualIsCheckbox |-> type = "checkbox",
     hasCbLabel |-> type = "checkbox"]

LengthField   == Wrapper("text", TRUE, <<"1">>, FALSE, FALSE, TRUE)
PhoneField    == Wrapper("tel", FALSE, <<>>, TRUE, FALSE, TRUE)
EmailField    == Wrapper("email", FALSE, <<>>, FALSE, FALSE, TRUE)
CheckboxField == Wrapper("checkbox", FALSE, <<>>, FALSE, TRUE, TRUE)
\* a failing-capable field whose wrapper has no error label
BareLengthField == Wrapper("text", TRUE, <<>>, FALSE, FALSE, FALSE)
\* a wrapper with no input or textarea in it
EmptyWrapper  ==
    [Wrapper("text", FALSE, <<>>, FALSE, FALSE, TRUE) EXCEPT !.hasInput = FALSE]

Form(fields, hasSubmit) == [fields |-> fields, hasSubmit |-> hasSubmit]

Forms ==
    { Form(<<LengthField, CheckboxField>>, TRUE),
      Form(<<EmailField, PhoneField>>, TRUE),
      Form(<<CheckboxField, EmptyWrapper, BareLengthField>>, FALSE) }

\* the values typed into text inputs
SampleValues ==
    { <<>>,
      <<"a">>,
      <<" ", "a", "b">>,
      <<"a", "@", "b", ".", "c">>,
      <<"1", "2", "x", "4", "5">>,
      <<"+", "1", "2", "3", "4", "5">>,
      <<"0", "1", "2", "3", "4", "5", "6", "7", "8", "9">> }

Wrappers == 1..Len(cfg.fields)

----------------------------------------------------------------------------
(* DOM state.  dom is a record of functions over the wrappers:             *)
(*   value        input.value                                              *)
(*   checked      input.checked                                            *)
(*   touched      the input carries data-touched                           *)
(*   dataChecked  the input's data-checked: "none", "true" or "false"      *)
(*   redirected   the .w-checkbox-input carries w--redirected-checked      *)
(*   inputError   the input carries is-error                               *)
(*   visualError  the .w-checkbox-input carries is-error                   *)
(*   labelShown   the error label's style is 'display: flex;'              *)
(*   customText   the label's text was replaced by the custom error text   *)
(* and disabled: the submit control carries is-disabled.                   *)
(***************************************************************************)

Result(d, ret) == [dom |-> d, ret |-> ret]

boolToString(b) == IF b THEN "true" ELSE "false"

\* the tail of showError: reveal the wrapper's error label, if there is one
revealLabel(d, w) ==
    IF cfg.fields[w].hasLabel
    THEN [d EXCEPT !.labelShown[w] = TRUE,
                   !.customText[w] = @ \/ cfg.fields[w].hasErrorText]
    ELSE d

\* the tail of hideError: hide the wrapper's error label, if there is one
concealLabel(d, w) ==
    IF cfg.fields[w].hasLabel THEN [d EXCEPT !.labelShown[w] = FALSE] ELSE d

\* classList.add / classList.remove of is-error on element el of wrapper w
setError(d, w, el, on) ==
    IF el = "visual" THEN [d EXCEPT !.visualError[w] = on]
    ELSE [d EXCEPT !.inputError[w] = on]

\* wrapper.querySelector('input[type="checkbox"]')
isCheckboxWrapper(w) ==
    cfg.fields[w].hasInput /\ cfg.fields[w].type = "checkbox"

\* wrapper.querySelector('.w-checkbox-input.checkbox')
hasCheckboxVisual(w) ==
    cfg.fields[w].hasVisual /\ cfg.fields[w].visualIsCheckbox

(* ---- rev C ---- *)

\* updateCheckboxClasses with classList.toggle in place of classList.add
updateCheckboxClasses_toggles(d, w) ==
    [d EXCEPT !.redirected[w] = IF d.dataChecked[w] = "true" THEN ~@ ELSE FALSE]

\* updateCheckboxClasses
updateCheckboxClasses(d, w) ==
    [d EXCEPT !.redirected[w] = (d.dataChecked[w] = "true")]

\* validateCheckbox, rev C, without the call of updateCheckboxClasses
validateCheckboxC_skipsClasses(d, w) ==
    Result([d EXCEPT !.dataChecked[w] = boolToString(d.checked[w])],
           d.checked[w])

\* validateCheckbox, rev C
validateCheckboxC(d, w) ==
    LET isValid == d.checked[w]
        d1 == [d EXCEPT !.dataChecked[w] = boolToString(isValid)]
        d2 == IF cfg.fields[w].hasVisual
              THEN updateCheckboxClasses(d1, w)
              ELSE d1
    IN  Result(d2, isValid)

\* showError, rev C; el is the element passed as its second argument
showErrorC(d, w, el) ==
    LET d1 == IF isCheckboxWrapper(w)
              THEN IF hasCheckboxVisual(w)
                   THEN setError(d, w, "visual", TRUE)
                   ELSE d
              ELSE setError(d, w, el, TRUE)
    IN  revealLabel(d1, w)

\* hideError, rev C
hideErrorC(d, w, el) ==
    LET d1 == IF isCheckboxWrapper(w)
              THEN IF hasCheckboxVisual(w)
                   THEN setError(d, w, "visual", FALSE)
                   ELSE d
              ELSE setError(d, w, el, FALSE)
    IN  concealLabel(d1, w)

\* textVerdict in which the phone check overrides the email check
textVerdict_phoneLast(r, f, value) ==
    IF f.hasPhone THEN validatePhone(r, value)
    ELSE IF f.type = "email" THEN validateEmail(value)
    ELSE IF f.hasLength
    THEN validateLength(value, parseInt(attrOrZero(f.lengthAttr)))
    ELSE TRUE

\* the verdict of the length, phone and email checks of validateInput on a
\* field with attributes f: each check overrides the one before it
textVerdict(r, f, value) ==
    IF f.type = "email" THEN validateEmail(value)
    ELSE IF f.hasPhone THEN validatePhone(r, value)
    ELSE IF f.hasLength
    THEN validateLength(value, parseInt(attrOrZero(f.lengthAttr)))
    ELSE TRUE

\* if (!isValid) showError(wrapper, el) else hideError(wrapper, el)
presentC(d, w, el, isValid) ==
    IF ~isValid
    THEN Result(showErrorC(d, w, el), isValid)
    ELSE Result(hideErrorC(d, w, el), isValid)

\* the element validateInput hands to showError and hideError for a
\* checkbox: checkbox || input
checkboxOrInputC(w) == IF hasCheckboxVisual(w) THEN "visual" ELSE "input"

\* mayRender without the touched gate: every showErrors pass renders
mayRender_ignoresTouched(d, w, showErrors, forceShowErrors) == showErrors

\* showErrors && (input.hasAttribute('data-touched') || forceShowErrors)
mayRender(d, w, showErrors, forceShowErrors) ==
    showErrors /\ (d.touched[w] \/ forceShowErrors)

\* validateInput, rev C, from the verdict on: res is the state and verdict
\* after the rule has run, render whether the error may be shown or hidden
renderC(res, w, el, render) ==
    IF render THEN presentC(res.dom, w, el, res.ret) ELSE res

\* validateInput, rev C, failing a wrapper in which no input is found
validateInputC_missingInputFails(d, w, showErrors, forceShowErrors) ==
    IF ~cfg.fields[w].hasInput THEN Result(d, FALSE)
    ELSE IF cfg.fields[w].hasCheckbox
    THEN renderC(validateCheckboxC(d, w), w, checkboxOrInputC(w),
                 mayRender(d, w, showErrors, forceShowErrors))
    ELSE renderC(Result(d, textVerdict("C", cfg.fields[w], d.value[w])), w,
                 "input",
                 mayRender(d, w, showErrors, forceShowErrors))

\* validateInput, rev C
validateInputC(d, w, showErrors, forceShowErrors) ==
    IF ~cfg.fields[w].hasInput THEN Result(d, TRUE)
    ELSE IF cfg.fields[w].hasCheckbox
    THEN renderC(validateCheckboxC(d, w), w, checkboxOrInputC(w),
                 mayRender(d, w, showErrors, forceShowErrors))
    ELSE renderC(Result(d, textVerdict("C", cfg.fields[w], d.value[w])), w,
                 "input",
                 mayRender(d, w, showErrors, forceShowErrors))

(* ---- rev B ---- *)

\* showError, rev B
showErrorB(d, w, el) == revealLabel(setError(d, w, el, TRUE), w)

\* hideError, rev B
hideErrorB(d, w, el) == concealLabel(setError(d, w, el, FALSE), w)

\* validateCheckbox, rev B
validateCheckboxB(d, w) == d.checked[w]

\* the verdict of validateInput, rev B
verdictB(d, w) ==
    IF cfg.fields[w].hasCheckbox THEN validateCheckboxB(d, w)
    ELSE textVerdict("B", cfg.fields[w], d.value[w])

\* the checkbox branch's class toggle on .w-checkbox-input, rev B
markCheckboxB(d, w, render, isValid) ==
    IF cfg.fields[w].hasCheckbox /\ cfg.fields[w].hasVisual
    THEN setError(d, w, "visual", render /\ ~isValid)
    ELSE d

\* the element rev B hands to showError and hideError
checkboxOrInputB(w) ==
    IF cfg.fields[w].type = "checkbox" /\ cfg.fields[w].hasVisual
    THEN "visual"
    ELSE "input"

\* validateInput, rev B, from the verdict on
renderB(d, w, render, isValid) ==
    IF render
    THEN IF ~isValid
         THEN Result(showErrorB(markCheckboxB(d, w, render, isValid), w,
                                checkboxOrInputB(w)), isValid)
         ELSE Result(hideErrorB(markCheckboxB(d, w, render, isValid), w,
                                checkboxOrInputB(w)), isValid)
    ELSE Result(markCheckboxB(d, w, render, isValid), isValid)

\* validateInput, rev B
validateInputB(d, w, showErrors, forceShowErrors) ==
    IF ~cfg.fields[w].hasInput THEN Result(d, TRUE)
    ELSE renderB(d, w, mayRender(d, w, showErrors, forceShowErrors),
                 verdictB(d, w))

(* ---- both revisions ---- *)

validateInput(r, d, w, showErrors, forceShowErrors) ==
    IF r = "C" THEN validateInputC(d, w, showErrors, forceShowErrors)
    ELSE validateInputB(d, w, showErrors, forceShowErrors)

\* foldVerdict that keeps only the last wrapper's verdict
foldVerdict_lastWins(isFormValid, one) == Result(one.dom, one.ret)

\* if (!inputValid) isFormValid = false
foldVerdict(isFormValid, one) == Result(one.dom, isFormValid /\ one.ret)

\* the forEach of validateForm from wrapper w on; acc holds the state and
\* isFormValid so far
RECURSIVE validateEach(_, _, _, _, _)
validateEach(r, acc, w, showErrors, forceShowErrors) ==
    IF w > Len(cfg.fields) THEN acc
    ELSE validateEach(r,
            foldVerdict(acc.ret,
                validateInput(r, acc.dom, w, showErrors, forceShowErrors)),
            w + 1, showErrors, forceShowErrors)

\* the end of validateForm: toggle is-disabled on the submit control
toggleSubmit(all) ==
    IF cfg.hasSubmit
    THEN Result([all.dom EXCEPT !.disabled = ~all.ret], all.ret)
    ELSE all

\* validateForm
validateForm(r, d, showErrors, forceShowErrors) ==
    toggleSubmit(validateEach(r, Result(d, TRUE), 1, showErrors,
                              forceShowErrors))

\* revalidate with forceShowErrors passed as true to validateForm
revalidate_forced(r, d, w) ==
    validateForm(r, validateInput(r, d, w, TRUE, FALSE).dom, TRUE, TRUE).dom

\* the body shared by the input, blur, change and timer callbacks:
\* validateInput(wrapper, true); validateForm(form, true)
revalidate(r, d, w) ==
    validateForm(r, validateInput(r, d, w, TRUE, FALSE).dom, TRUE, FALSE).dom

----------------------------------------------------------------------------
(* Listeners attached by validateForms *)

\* focus, input and blur listeners: every input in rev B, every input
\* without input-validation-checkbox in rev C
hasTextListeners(w) ==
    cfg.fields[w].hasInput /\ (rev = "B" \/ ~cfg.fields[w].hasCheckbox)

\* the change listener of rev C
hasChangeListener(w) ==
    rev = "C" /\ cfg.fields[w].hasInput /\ cfg.fields[w].hasCheckbox

\* the click listener on the .w-checkbox label of rev C
hasClickListener(w) == hasChangeListener(w) /\ cfg.fields[w].hasCbLabel

Event(type, w) == [type |-> type, w |-> w]

NoTarget == [w |-> 0, el |-> "none"]

\* firstError that finds the last wrapper carrying is-error
firstError_lastOne(d, w) ==
    IF \A u \in Wrappers : ~d.visualError[u] /\ ~d.inputError[u]
    THEN NoTarget
    ELSE [w |-> CHOOSE u \in Wrappers :
                    /\ d.visualError[u] \/ d.inputError[u]
                    /\ \A x \in Wrappers :
                            (d.visualError[x] \/ d.inputError[x]) => x <= u,
          el |-> IF d.visualError[
                        CHOOSE u \in Wrappers :
                            /\ d.visualError[u] \/ d.inputError[u]
                            /\ \A x \in Wrappers :
                                (d.visualError[x] \/ d.inputError[x]) => x <= u]
                 THEN "visual" ELSE "input"]

\* form.querySelector('.is-error'): the first element in document order that
\* carries is-error; inside a wrapper the checkbox visual precedes the input
RECURSIVE firstError(_, _)
firstError(d, w) ==
    IF w > Len(cfg.fields) THEN NoTarget
    ELSE IF d.visualError[w] THEN [w |-> w, el |-> "visual"]
    ELSE IF d.inputError[w] THEN [w |-> w, el |-> "input"]
    ELSE firstError(d, w + 1)

----------------------------------------------------------------------------
(* The page before validateForms() runs: any values, any checkbox state    *)
(* and any error markup left in the page.                                  *)
(***************************************************************************)

isTextInput(f) == f.hasInput /\ f.type # "checkbox"

isCheckboxInput(f) == f.hasInput /\ f.type = "checkbox"

\* the DOM state of form c with the given values, checkbox states and
\* error markup, and nothing of the validator's in it yet
Markup(c, v, ch, ie, ve, ls) ==
    LET off == [w \in 1..Len(c.fields) |-> FALSE]
    IN  [value |-> v, checked |-> ch, touched |-> off,
         dataChecked |-> [w \in 1..Len(c.fields) |-> "none"],
         redirected |-> off, inputError |-> ie, visualError |-> ve,
         labelShown |-> ls, customText |-> off, disabled |-> FALSE]

\* the ways to set a flag on some of the wrappers w of c that have has[w]
FlagsOn(c, has) ==
    { x \in [1..Len(c.fields) -> BOOLEAN] :
        \A w \in 1..Len(c.fields) : x[w] => has[w] }

\* the wrappers of c that hold a checkbox, an input, a checkbox visual, an
\* error label
checkboxesOf(c) == [w \in 1..Len(c.fields) |-> isCheckboxInput(c.fields[w])]

inputsOf(c) == [w \in 1..Len(c.fields) |-> c.fields[w].hasInput]

visualsOf(c) == [w \in 1..Len(c.fields) |-> c.fields[w].hasVisual]

labelsOf(c) == [w \in 1..Len(c.fields) |-> c.fields[w].hasLabel]

\* the ways to fill the text inputs of c
ValuesOf(c) ==
    { x \in [1..Len(c.fields) -> SampleValues] :
        \A w \in 1..Len(c.fields) : x[w] # <<>> => isTextInput(c.fields[w]) }

Init ==
    /\ rev \in {"B", "C"}
    /\ cfg \in Forms
    /\ \E v \in ValuesOf(cfg) :
       \E ch \in FlagsOn(cfg, checkboxesOf(cfg)) :
       \E ie \in FlagsOn(cfg, inputsOf(cfg)) :
       \E ve \in FlagsOn(cfg, visualsOf(cfg)) :
       \E ls \in FlagsOn(cfg, labelsOf(cfg)) :
            dom = Markup(cfg, v, ch, ie, ve, ls)
    /\ timers = <<>>
    /\ pc = "load"
    /\ lastEvent = Event("none", 0)
    /\ forceShown = FALSE
    /\ submitResult = [cancelled |-> FALSE, target |-> NoTarget]

----------------------------------------------------------------------------
(* validateForms(): page-load initialisation *)

\* "Инициализация состояния чекбокса при загрузке", rev C
RECURSIVE initCheckboxes(_, _)
initCheckboxes(d, w) ==
    IF w > Len(cfg.fields) THEN d
    ELSE IF hasChangeListener(w) /\ d.checked[w]
    THEN initCheckboxes(
            [d EXCEPT !.dataChecked[w] = "true",
                      !.redirected[w] = @ \/ cfg.fields[w].hasVisual], w + 1)
    ELSE initCheckboxes(d, w + 1)

\* clearErrors that strips the classes but leaves the labels as they are
clearErrors_keepsLabels(d) ==
    [d EXCEPT !.inputError = [w \in Wrappers |-> FALSE],
              !.visualError = [w \in Wrappers |-> FALSE]]

\* hide every error label, strip every is-error class
clearErrors(d) ==
    [d EXCEPT !.labelShown = [w \in Wrappers |-> FALSE],
              !.inputError = [w \in Wrappers |-> FALSE],
              !.visualError = [w \in Wrappers |-> FALSE]]

\* the state validateForms leaves the form in
loaded(r, d) ==
    LET d1 == validateForm(r, clearErrors(d), FALSE, FALSE).dom
    IN  IF r = "C" THEN initCheckboxes(d1, 1) ELSE d1

Load ==
    /\ pc = "load"
    /\ dom' = loaded(rev, dom)
    /\ pc' = "ready"
    /\ lastEvent' = Event("load", 0)
    /\ UNCHANGED <<rev, cfg, timers, forceShown, submitResult>>

----------------------------------------------------------------------------
(* Events *)

\* the focus listener: input.setAttribute('data-touched', 'true')
onFocus(d, w) ==
    IF hasTextListeners(w) THEN [d EXCEPT !.touched[w] = TRUE] ELSE d

Focus(w) ==
    /\ pc = "ready"
    /\ cfg.fields[w].hasInput
    /\ dom' = onFocus(dom, w)
    /\ lastEvent' = Event("focus", w)
    /\ UNCHANGED <<rev, cfg, timers, pc, forceShown, submitResult>>

\* the input listener, run once the browser has stored the typed value
onInput(r, d, w) ==
    IF ~hasTextListeners(w) THEN d
    ELSE IF cfg.fields[w].hasPhone
    THEN revalidate(r, [d EXCEPT !.value[w] = sanitizePhone(@)], w)
    ELSE revalidate(r, d, w)

\* the user edits a text input
Input(w, v) ==
    /\ pc = "ready"
    /\ isTextInput(cfg.fields[w])
    /\ dom' = onInput(rev, [dom EXCEPT !.value[w] = v], w)
    /\ lastEvent' = Event("input", w)
    /\ UNCHANGED <<rev, cfg, timers, pc, forceShown, submitResult>>

\* the blur listener
onBlur(r, d, w) == IF hasTextListeners(w) THEN revalidate(r, d, w) ELSE d

Blur(w) ==
    /\ pc = "ready"
    /\ cfg.fields[w].hasInput
    /\ dom' = onBlur(rev, dom, w)
    /\ lastEvent' = Event("blur", w)
    /\ UNCHANGED <<rev, cfg, timers, pc, forceShown, submitResult>>

\* the click listener of the .w-checkbox label: setTimeout(callback, 0)
onClick(q, w) == IF hasClickListener(w) THEN Append(q, w) ELSE q

\* Click whose listener re-validates at once, before the browser has toggled
\* the native state, instead of deferring
Click_sync(w) ==
    /\ pc = "ready"
    /\ isCheckboxInput(cfg.fields[w])
    /\ Len(timers) < MaxTimers
    /\ timers' = timers
    /\ dom' = [(IF hasClickListener(w) THEN revalidate(rev, dom, w) ELSE dom)
                 EXCEPT !.checked[w] = ~@]
    /\ lastEvent' = Event("click", w)
    /\ UNCHANGED <<rev, cfg, pc, forceShown, submitResult>>

\* the user clicks a checkbox (its label): the click listener runs, then the
\* browser toggles the native state and dispatches input to the checkbox
Click(w) ==
    /\ pc = "ready"
    /\ isCheckboxInput(cfg.fields[w])
    /\ Len(timers) < MaxTimers
    /\ timers' = onClick(timers, w)
    /\ dom' = onInput(rev, [dom EXCEPT !.checked[w] = ~@], w)
    /\ lastEvent' = Event("click", w)
    /\ UNCHANGED <<rev, cfg, pc, forceShown, submitResult>>

\* the change listener of rev C
onChange(r, d, w) == IF hasChangeListener(w) THEN revalidate(r, d, w) ELSE d

\* a change event on a checkbox whose checked state is now b
Change(w, b) ==
    /\ pc = "ready"
    /\ isCheckboxInput(cfg.fields[w])
    /\ dom' = onChange(rev, [dom EXCEPT !.checked[w] = b], w)
    /\ lastEvent' = Event("change", w)
    /\ UNCHANGED <<rev, cfg, timers, pc, forceShown, submitResult>>

\* the deferred callback of the click listener
onTimeout(r, d, w) == revalidate(r, d, w)

Timeout ==
    /\ pc = "ready"
    /\ timers # <<>>
    /\ dom' = onTimeout(rev, dom, Head(timers))
    /\ timers' = Tail(timers)
    /\ lastEvent' = Event("timeout", Head(timers))
    /\ UNCHANGED <<rev, cfg, pc, forceShown, submitResult>>

\* the submit listener after validateForm(form, true, true) returned res:
\* cancel and scroll to the first error when the form is invalid
submitOutcome(res) ==
    [dom |-> res.dom,
     cancelled |-> ~res.ret,
     target |-> IF ~res.ret THEN firstError(res.dom, 1) ELSE NoTarget]

\* onSubmit that also cancels when the submit control carries is-disabled
onSubmit_disabledBlocks(r, d) ==
    [submitOutcome(validateForm(r, d, TRUE, TRUE))
        EXCEPT !.cancelled = @ \/ d.disabled]

\* onSubmit that validates without forceShowErrors
onSubmit_noForce(r, d) == submitOutcome(validateForm(r, d, TRUE, FALSE))

\* the submit listener
onSubmit(r, d) == submitOutcome(validateForm(r, d, TRUE, TRUE))

Submit ==
    /\ pc = "ready"
    /\ \E s \in {onSubmit(rev, dom)} :
           /\ dom' = s.dom
           /\ submitResult' = [cancelled |-> s.cancelled, target |-> s.target]
    /\ forceShown' = TRUE
    /\ lastEvent' = Event("submit", 0)
    /\ UNCHANGED <<rev, cfg, timers, pc>>

Next ==
    \/ Load
    \/ \E w \in Wrappers : Focus(w)
    \/ \E w \in Wrappers : \E v \in SampleValues : Input(w, v)
    \/ \E w \in Wrappers : Blur(w)
    \/ \E w \in Wrappers : Click(w)
    \/ \E w \in Wrappers : \E b \in BOOLEAN : Change(w, b)
    \/ Timeout
    \/ Submit

Spec == Init /\ [][Next]_vars

----------------------------------------------------------------------------
(* Notions the properties below share *)

\* the field's current rule verdict is fail: validateInput, run without
\* presentation, returns false
fails(w) == ~validateInput(rev, dom, w, FALSE, FALSE).ret

anyFails == \E w \in Wrappers : fails(w)

\* the wrappers that have an error label
Labelled == { w \in Wrappers : cfg.fields[w].hasLabel }

\* the element of wrapper w that carries the error style carries is-error
errorStyled(w) ==
    IF isCheckboxWrapper(w) /\ cfg.fields[w].hasVisual
    THEN dom.visualError[w]
    ELSE dom.inputError[w]

\* the handler that ran last ended with a validateForm(form, true, ...) pass
lastValidated ==
    \/ lastEvent.type \in {"timeout", "submit"}
    \/ lastEvent.type \in {"input", "blur"} /\ hasTextListeners(lastEvent.w)
    \/ lastEvent.type = "click" /\ hasTextListeners(lastEvent.w)
    \/ lastEvent.type = "change" /\ hasChangeListener(lastEvent.w)

\* nothing is pending: the page is loaded and the task queue is empty
quiescent == pc = "ready" /\ timers = <<>>

----------------------------------------------------------------------------
(* Error visibility *)

\* C1 (as stated): in rev C, whenever nothing is pending, every field's
\* error label is visible if and only if its verdict is fail and the field
\* is touched or a force-show submit has been requested.
C1_VisibleIffFailAndAllowed ==
    (rev = "C" /\ quiescent) =>
        \A w \in Labelled :
            dom.labelShown[w] <=> (fails(w) /\ (dom.touched[w] \/ forceShown))

\* C1 (amended): in rev C, whenever nothing is pending, an error label is
\* visible only if its field is touched or a force-show submit has been
\* requested; and when the handler that ran last ended with a validateForm
\* pass, the label of every touched field - of every field, after a submit -
\* is visible if and only if the field's verdict is fail.
C1_VisibleOnlyIfAllowedAndFreshIffFail ==
    (rev = "C" /\ quiescent) =>
        /\ \A w \in Labelled :
                dom.labelShown[w] => (dom.touched[w] \/ forceShown)
        /\ lastValidated =>
                \A w \in Labelled :
                    (dom.touched[w] \/ lastEvent.type = "submit")
                        => (dom.labelShown[w] <=> fails(w))

\* a touched failing field shows its label next to an untouched failing
\* field that does not, after a validating handler and before any submit
C1_Witness ==
    /\ rev = "C" /\ quiescent /\ lastValidated /\ ~forceShown
    /\ \E w, u \in Labelled :
        /\ dom.touched[w] /\ fails(w) /\ dom.labelShown[w]
        /\ ~dom.touched[u] /\ fails(u) /\ ~dom.labelShown[u]

\* C2: as long as no submit event has been dispatched, no field shows its
\* error label while it is untouched, in either revision.
C2_NoLabelWhileUntouched ==
    (pc = "ready" /\ ~forceShown) =>
        \A w \in Labelled : dom.labelShown[w] => dom.touched[w]

\* another field's input or blur handler has just re-run validateForm over
\* an untouched, invalid field, and its label stayed hidden
C2_Witness ==
    /\ pc = "ready" /\ ~forceShown
    /\ lastEvent.type \in {"input", "blur"}
    /\ hasTextListeners(lastEvent.w)
    /\ dom.labelShown[lastEvent.w]
    /\ \E u \in Labelled :
        u # lastEvent.w /\ ~dom.touched[u] /\ fails(u) /\ ~dom.labelShown[u]

----------------------------------------------------------------------------
(* Submission *)

\* C3: a submit event is cancelled if and only if at least one field's
\* verdict, on the values of that moment, is fail; the is-disabled class the
\* submit control carried when the event arrived plays no part.
C3_CancelledIffSomeFieldFails ==
    lastEvent.type = "submit" => (submitResult.cancelled <=> anyFails)

\* a submit was cancelled over a failing field
C3_Witness ==
    /\ lastEvent.type = "submit"
    /\ submitResult.cancelled
    /\ anyFails

----------------------------------------------------------------------------
(* The touched flag *)

\* C5 (as stated): a focus event on any field that has an input element,
\* checkbox fields included, leaves the field touched, and no step ever
\* clears a touched flag.
C5_FocusTouchesEveryInput ==
    [][ /\ lastEvent'.type = "focus" => dom'.touched[lastEvent'.w]
        /\ \A w \in Wrappers : dom.touched[w] => dom'.touched[w] ]_vars

----------------------------------------------------------------------------
(* The form verdict and the submit control *)

\* every field passes in state d, by validateInput without presentation
allPass(d) ==
    \A w \in Wrappers : validateInput(rev, d, w, FALSE, FALSE).ret

\* C6: after every validateForm call the submit control carries is-disabled
\* if and only if some field fails; and whatever the touched flags and the
\* showErrors / forceShowErrors arguments, validateForm returns the AND of
\* the field verdicts and sets the class to its negation.
C6_DisabledIffSomeFieldFails ==
    /\ (pc = "ready" /\ (lastValidated \/ lastEvent.type = "load")
            /\ cfg.hasSubmit)
        => (dom.disabled <=> anyFails)
    /\ LET every == allPass(dom)
       IN  \A showErrors, forceShowErrors \in BOOLEAN :
           \A t \in [Wrappers -> BOOLEAN] :
               LET res == validateForm(rev, [dom EXCEPT !.touched = t],
                                       showErrors, forceShowErrors)
               IN  /\ res.ret = every
                   /\ cfg.hasSubmit => (res.dom.disabled = ~every)

\* a validateForm pass has just disabled the submit control over an
\* untouched failing field while a touched field passes
C6_Witness ==
    /\ pc = "ready" /\ lastValidated /\ cfg.hasSubmit /\ dom.disabled
    /\ \E w, u \in Wrappers :
        /\ dom.touched[w] /\ ~fails(w)
        /\ ~dom.touched[u] /\ fails(u)

\* C7: validateForm is idempotent: from any state and with any arguments, a
\* second run returns the first run's verdict and leaves the whole DOM state
\* as the first run left it.
C7_ValidateFormIdempotent ==
    \A showErrors, forceShowErrors \in BOOLEAN :
        LET first == validateForm(rev, dom, showErrors, forceShowErrors)
        IN  validateForm(rev, first.dom, showErrors, forceShowErrors) = first

\* a state in which a validateForm pass changes labels, classes, data-checked
\* and the submit control at once: a checked checkbox was cleared and the
\* deferred callback has not yet run
C7_Witness ==
    /\ rev = "C" /\ pc = "ready" /\ timers # <<>>
    /\ \E w \in Wrappers :
        /\ hasClickListener(w)
        /\ dom.dataChecked[w] = "true" /\ ~dom.checked[w]
        /\ validateForm(rev, dom, TRUE, TRUE).dom.labelShown[w]
        /\ ~dom.labelShown[w]
        /\ validateForm(rev, dom, TRUE, TRUE).dom.disabled # dom.disabled

----------------------------------------------------------------------------
(* Deferred checkbox re-validation *)

\* wrapper w has a deferred callback waiting
pending(w) == \E i \in 1..Len(timers) : timers[i] = w

\* C8: in rev C a click on a checkbox label re-validates in a later task:
\* once a click's deferred callback has completed, and at any time after a
\* click when no callback for that checkbox is waiting, the verdict mirrored
\* in data-checked, the w--redirected-checked class and the submit control's
\* is-disabled class all reflect the checked state the click left.
C8_DeferredSeesPostClickState ==
    \A w \in Wrappers :
        ( /\ rev = "C" /\ hasClickListener(w)
          /\ \/ lastEvent = Event("timeout", w)
             \/ lastEvent = Event("click", w) /\ ~pending(w) )
        => /\ dom.dataChecked[w] = boolToString(dom.checked[w])
           /\ dom.redirected[w] = dom.checked[w]
           /\ fails(w) = ~dom.checked[w]
           /\ cfg.hasSubmit => (dom.disabled <=> anyFails)

\* the first of two deferred callbacks has completed after a second click
\* arrived before it ran
C8_Witness ==
    /\ rev = "C"
    /\ lastEvent.type = "timeout"
    /\ hasClickListener(lastEvent.w)
    /\ pending(lastEvent.w)
    /\ dom.checked[lastEvent.w]
    /\ dom.dataChecked[lastEvent.w] = "true"

----------------------------------------------------------------------------
(* Page load *)

\* C9: when validateForms has finished, whatever the initial values and the
\* error markup found in the page, no error label is visible and no element
\* carries is-error.
C9_LoadShowsNoError ==
    lastEvent.type = "load" =>
        \A w \in Wrappers :
            ~dom.labelShown[w] /\ ~dom.inputError[w] /\ ~dom.visualError[w]

\* a form loaded with an invalid field
C9_Witness ==
    /\ lastEvent.type = "load"
    /\ \E w \in Labelled : fails(w) /\ ~dom.labelShown[w]

----------------------------------------------------------------------------
(* A single length-validated field, over every short attribute text and    *)
(* every short value: the specification of the claims about the rules.     *)
(***************************************************************************)

\* longest input-validation-length attribute text tried
MaxAttrLen == 2

\* longest value typed into the field
MaxValueLen == 2

\* the strings over alphabet of length at most n
StringsUpTo(alphabet, n) ==
    UNION { [1..k -> alphabet] : k \in 0..n }

\* attribute texts: digits, a letter, a blank
RuleAttrs == StringsUpTo({"0", "2", "a", " "}, MaxAttrLen)

\* values: a letter and a blank
RuleValues == StringsUpTo({"a", " "}, MaxValueLen)

RuleForms ==
    { Form(<<Wrapper("text", TRUE, a, FALSE, FALSE, TRUE)>>, TRUE) :
        a \in RuleAttrs }

InitRules ==
    /\ rev \in {"B", "C"}
    /\ cfg \in RuleForms
    /\ \E v \in RuleValues :
            dom = Markup(cfg, <<v>>, <<FALSE>>, <<FALSE>>, <<FALSE>>,
                         <<FALSE>>)
    /\ timers = <<>>
    /\ pc = "load"
    /\ lastEvent = Event("none", 0)
    /\ forceShown = FALSE
    /\ submitResult = [cancelled |-> FALSE, target |-> NoTarget]

NextRules ==
    \/ Load
    \/ Focus(1)
    \/ \E v \in RuleValues : Input(1, v)
    \/ Blur(1)
    \/ Submit

SpecRules == InitRules /\ [][NextRules]_vars

\* the attribute text is a decimal numeral
isNumeral(a) == a # <<>> /\ \A i \in 1..Len(a) : a[i] \in Digits

\* C10 (as stated): a length-validated field whose attribute is empty or
\* not a number is validated with a minimum of zero: for every value its
\* verdict is the verdict of the same field with the attribute set to 0.
C10_MalformedLengthMeansZero ==
    \A w \in Wrappers :
        ( /\ pc = "ready"
          /\ isTextInput(cfg.fields[w])
          /\ cfg.fields[w].hasLength
          /\ ~isNumeral(cfg.fields[w].lengthAttr) )
        => validateInput(rev, dom, w, FALSE, FALSE).ret
            = textVerdict(rev, [cfg.fields[w] EXCEPT !.lengthAttr = <<"0">>],
                          dom.value[w])

----------------------------------------------------------------------------
(* One field for every combination of declared constraints: the            *)
(* specification of the claim about which rule decides.                    *)
(***************************************************************************)

\* a single-field form for each input type and each set of declared
\* validation attributes
DispatchForms ==
    { Form(<<Wrapper(t, l, IF l THEN <<"1">> ELSE <<>>, p, c, TRUE)>>, TRUE) :
        t \in {"text", "email", "checkbox"}, l \in BOOLEAN, p \in BOOLEAN,
        c \in BOOLEAN }

InitDispatch ==
    /\ rev \in {"B", "C"}
    /\ cfg \in DispatchForms
    /\ \E v \in ValuesOf(cfg) :
       \E ch \in FlagsOn(cfg, checkboxesOf(cfg)) :
            dom = Markup(cfg, v, ch, <<FALSE>>, <<FALSE>>, <<FALSE>>)
    /\ timers = <<>>
    /\ pc = "load"
    /\ lastEvent = Event("none", 0)
    /\ forceShown = FALSE
    /\ submitResult = [cancelled |-> FALSE, target |-> NoTarget]

SpecDispatch == InitDispatch /\ [][Next]_vars

\* the rule that decides a field with attributes f
chosenRule(f) ==
    IF f.hasCheckbox THEN "checkbox"
    ELSE IF f.type = "email" THEN "email"
    ELSE IF f.hasPhone THEN "phone"
    ELSE IF f.hasLength THEN "length"
    ELSE "none"

\* the verdict of one rule on the field of wrapper w as it is now
ruleVerdict(rule, w) ==
    CASE rule = "checkbox" -> dom.checked[w]
      [] rule = "email" -> validateEmail(dom.value[w])
      [] rule = "phone" -> validatePhone(rev, dom.value[w])
      [] rule = "length" ->
            validateLength(dom.value[w],
                           parseInt(attrOrZero(cfg.fields[w].lengthAttr)))
      [] rule = "none" -> TRUE

\* C11: whatever constraints a field declares, and with any showErrors /
\* forceShowErrors arguments, validateInput returns the verdict of exactly
\* one rule, picked from the declared constraints alone: checkbox if
\* declared, else email for type email, else phone if declared, else length
\* if declared, else pass.
C11_OneRuleByDeclaration ==
    \A w \in Wrappers :
        cfg.fields[w].hasInput =>
            \A showErrors, forceShowErrors \in BOOLEAN :
                validateInput(rev, dom, w, showErrors, forceShowErrors).ret
                    = ruleVerdict(chosenRule(cfg.fields[w]), w)

\* an email field that also declares a length and a phone constraint has
\* been re-validated on blur with a value the email rule accepts and the
\* phone rule rejects
C11_Witness ==
    /\ pc = "ready"
    /\ lastEvent.type = "blur"
    /\ \E w \in Wrappers :
        /\ cfg.fields[w].type = "email"
        /\ cfg.fields[w].hasPhone /\ cfg.fields[w].hasLength
        /\ ~cfg.fields[w].hasCheckbox
        /\ ruleVerdict("email", w)
        /\ ~ruleVerdict("phone", w)
        /\ ~fails(w)

----------------------------------------------------------------------------
(* The length rule *)

\* largest magnitude of a minimum handed to validateLength directly
MaxMinimum == 3

\* positions of s that hold a non-whitespace character
inkPositions(s) == { i \in 1..Len(s) : s[i] \notin Whitespace }

\* number of characters of s from its first non-whitespace character to its
\* last one, both included
coreLength(s) ==
    IF inkPositions(s) = {} THEN 0
    ELSE (CHOOSE i \in inkPositions(s) : \A j \in inkPositions(s) : j <= i)
         - (CHOOSE i \in inkPositions(s) : \A j \in inkPositions(s) : i <= j)
         + 1

\* C12: for every value and every integer minimum M, validateLength returns
\* true exactly when the value, without its leading and trailing whitespace,
\* is strictly longer than M; and a field whose length attribute is a
\* numeral gets that verdict for the numeral's value.
C12_LengthStrictlyGreater ==
    \A w \in Wrappers :
        (isTextInput(cfg.fields[w]) /\ cfg.fields[w].hasLength) =>
            /\ \A M \in (0 - MaxMinimum)..MaxMinimum :
                    validateLength(dom.value[w], Num(M))
                        = (coreLength(dom.value[w]) > M)
            /\ isNumeral(cfg.fields[w].lengthAttr) =>
                    (~fails(w)) = (coreLength(dom.value[w])
                                    > decimalValue(cfg.fields[w].lengthAttr, 0))

\* a value of exactly as many characters as the declared minimum has been
\* typed and fails
C12_Witness ==
    /\ pc = "ready"
    /\ lastEvent = Event("input", 1)
    /\ cfg.fields[1].lengthAttr = <<"2">>
    /\ coreLength(dom.value[1]) = 2
    /\ fails(1)
    /\ dom.disabled

----------------------------------------------------------------------------
(* A phone field and an email field edited one keystroke at a time: the    *)
(* specification of the claims about the phone and email rules.            *)
(***************************************************************************)

\* most digits typed into the phone field
MaxPhoneDigits == 10

\* most characters other than digits typed into the phone field
MaxPhoneOthers == 2

\* longest text typed into the email field
MaxEmailLen == 6

TypingForms == { Form(<<PhoneField>>, TRUE), Form(<<EmailField>>, TRUE) }

\* the keys pressed in a field with attributes f
Keys(f) == IF f.hasPhone THEN {"7", "-", "x"} ELSE {"a", "@", ".", " "}

\* number of digit characters of s
digitCount(s) == Cardinality({ i \in 1..Len(s) : s[i] \in Digits })

\* the text s is within the bounds of the field with attributes f
fits(f, s) ==
    IF f.hasPhone
    THEN /\ digitCount(s) <= MaxPhoneDigits
         /\ Len(s) - digitCount(s) <= MaxPhoneOthers
    ELSE Len(s) <= MaxEmailLen

\* s with character c inserted so that it becomes the i-th
insertAt(s, i, c) == SubSeq(s, 1, i - 1) \o <<c>> \o SubSeq(s, i, Len(s))

\* s without its i-th character
removeAt(s, i) == SubSeq(s, 1, i - 1) \o SubSeq(s, i + 1, Len(s))

\* s with its i-th and (i+1)-th characters exchanged
swapAt(s, i) == [s EXCEPT ![i] = s[i + 1], ![i + 1] = s[i]]

\* the texts one keystroke away from s: a key inserted anywhere, or one
\* character deleted
Keystrokes(f, s) ==
    { t \in { insertAt(s, i, c) : i \in 1..(Len(s) + 1), c \in Keys(f) }
              \cup { removeAt(s, i) : i \in 1..Len(s) } : fits(f, t) }

InitTyping ==
    /\ rev \in {"B", "C"}
    /\ cfg \in TypingForms
    /\ dom = Markup(cfg, <<<<>>>>, <<FALSE>>, <<FALSE>>, <<FALSE>>, <<FALSE>>)
    /\ timers = <<>>
    /\ pc = "load"
    /\ lastEvent = Event("none", 0)
    /\ forceShown = FALSE
    /\ submitResult = [cancelled |-> FALSE, target |-> NoTarget]

NextTyping ==
    \/ Load
    \/ \E v \in Keystrokes(cfg.fields[1], dom.value[1]) : Input(1, v)

SpecTyping == InitTyping /\ [][NextTyping]_vars

\* the texts that differ from s by one non-digit character inserted, one
\* non-digit character removed, or a non-digit character exchanged with its
\* neighbour
nonDigitEdits(s) ==
    { insertAt(s, i, c) : i \in 1..(Len(s) + 1), c \in {"-", "x"} }
    \cup { removeAt(s, i) : i \in { j \in 1..Len(s) : s[j] \notin Digits } }
    \cup { swapAt(s, i) :
            i \in { j \in 1..(Len(s) - 1) :
                        s[j] \notin Digits \/ s[j + 1] \notin Digits } }

\* C13: the phone verdict is (number of digit characters >= threshold), the
\* threshold being 5 in rev C and 10 in rev B, for validatePhone and for a
\* phone field through validateInput; inserting, removing or moving a
\* non-digit character leaves the verdict as it was.
C13_PhoneCountsDigits ==
    \A w \in Wrappers :
        (isTextInput(cfg.fields[w]) /\ cfg.fields[w].hasPhone) =>
            /\ validatePhone(rev, dom.value[w])
                = (digitCount(dom.value[w]) >= IF rev = "C" THEN 5 ELSE 10)
            /\ (~fails(w)) = validatePhone(rev, dom.value[w])
            /\ \A t \in nonDigitEdits(dom.value[w]) :
                    validatePhone(rev, t) = validatePhone(rev, dom.value[w])

\* in rev B a number of exactly ten digits with separators among them has
\* been typed and passes
C13_Witness ==
    /\ rev = "B" /\ pc = "ready"
    /\ lastEvent = Event("input", 1)
    /\ cfg.fields[1].hasPhone
    /\ digitCount(dom.value[1]) = 10
    /\ Len(dom.value[1]) = 12
    /\ dom.value[1][1] \notin Digits
    /\ ~fails(1)
    /\ ~dom.disabled


\* s without its leading and trailing whitespace
core(s) ==
    IF inkPositions(s) = {} THEN <<>>
    ELSE SubSeq(s,
            CHOOSE i \in inkPositions(s) : \A j \in inkPositions(s) : i <= j,
            CHOOSE i \in inkPositions(s) : \A j \in inkPositions(s) : j <= i)

\* positions of the '@' characters of s
atPositions(s) == { i \in 1..Len(s) : s[i] = "@" }

\* t has the shape local@domain.tld: no whitespace, exactly one '@' with
\* something before it, and after it a part with a '.' that is neither its
\* first nor its last character
hasEmailShape(t) ==
    /\ inkPositions(t) = 1..Len(t)
    /\ Cardinality(atPositions(t)) = 1
    /\ \A a \in atPositions(t) :
        /\ a > 1
        /\ \E j \in (a + 2)..(Len(t) - 1) : t[j] = "."

\* C14: validateEmail, and an email field through validateInput, pass
\* exactly when the value without its leading and trailing whitespace has
\* the shape local@domain.tld; "a@b.co" passes, "a@b" and "a b@c.com" fail.
C14_EmailShape ==
    /\ \A w \in Wrappers :
        (isTextInput(cfg.fields[w]) /\ cfg.fields[w].type = "email") =>
            /\ validateEmail(dom.value[w]) = hasEmailShape(core(dom.value[w]))
            /\ (~fails(w)) = validateEmail(dom.value[w])
    /\ validateEmail(<<"a", "@", "b", ".", "c", "o">>)
    /\ ~validateEmail(<<"a", "@", "b">>)
    /\ ~validateEmail(<<"a", " ", "b", "@", "c", ".", "c", "o", "m">>)

\* an address followed by a blank has been typed into the email field and
\* passes
C14_Witness ==
    /\ pc = "ready"
    /\ lastEvent = Event("input", 1)
    /\ cfg.fields[1].type = "email"
    /\ Len(dom.value[1]) = 6
    /\ dom.value[1][6] = " "
    /\ ~fails(1)
    /\ ~dom.disabled

----------------------------------------------------------------------------
(* Checkbox mirroring *)

\* wrapper w holds an input that declares input-validation-checkbox
declaresCheckbox(w) == cfg.fields[w].hasInput /\ cfg.fields[w].hasCheckbox

\* in state d the mirrored state of wrapper w agrees with the native one:
\* data-checked is "true" iff checked, and so is w--redirected-checked on
\* the checkbox visual
mirrored(d, w) ==
    /\ (d.dataChecked[w] = "true") <=> d.checked[w]
    /\ d.dataChecked[w] # "none"
    /\ cfg.fields[w].hasVisual => (d.redirected[w] <=> d.checked[w])

\* C15: in rev C, validateCheckbox returns the native checked state and
\* leaves data-checked and w--redirected-checked agreeing with it, whatever
\* they were before; and whenever the page is loaded and no deferred
\* callback is pending, every checkbox field is in that agreement.
C15_CheckboxMirrored ==
    \A w \in Wrappers :
        (rev = "C" /\ declaresCheckbox(w)) =>
            /\ validateCheckboxC(dom, w).ret = dom.checked[w]
            /\ mirrored(validateCheckboxC(dom, w).dom, w)
            /\ validateCheckboxC(dom, w).dom.checked = dom.checked
            /\ quiescent => mirrored(dom, w)

\* the deferred callback of a click that cleared a box has completed: the
\* mirror reads unchecked and the submit control is disabled
C15_Witness ==
    /\ rev = "C" /\ quiescent
    /\ lastEvent.type = "timeout"
    /\ \E w \in Wrappers :
        /\ lastEvent.w = w
        /\ declaresCheckbox(w)
        /\ ~dom.checked[w]
        /\ dom.dataChecked[w] = "false"
        /\ ~dom.redirected[w]
        /\ dom.disabled

----------------------------------------------------------------------------
(* Missing elements *)

\* the DOM state of wrapper w in state d
wrapperState(d, w) ==
    <<d.value[w], d.checked[w], d.touched[w], d.dataChecked[w],
      d.redirected[w], d.inputError[w], d.visualError[w], d.labelShown[w],
      d.customText[w]>>

\* in state d the element of wrapper w that takes the error style has it
styledIn(d, w) ==
    IF isCheckboxWrapper(w) /\ cfg.fields[w].hasVisual
    THEN d.visualError[w]
    ELSE d.inputError[w]

\* C16: a wrapper with no input or textarea is valid for validateInput, which
\* changes nothing; it does not count against the form verdict and a
\* validateForm pass leaves its DOM state as it was.  A failing field whose
\* wrapper has no error label still gets the fail verdict and its error
\* style from a rendering pass, and nothing is done to a label.
C16_MissingElementsFailOpen ==
    \A w \in Wrappers :
        /\ ~cfg.fields[w].hasInput =>
            /\ \A showErrors, forceShowErrors \in BOOLEAN :
                    validateInput(rev, dom, w, showErrors, forceShowErrors)
                        = Result(dom, TRUE)
            /\ validateForm(rev, dom, TRUE, TRUE).ret
                = (\A u \in Wrappers \ {w} : ~fails(u))
            /\ wrapperState(validateForm(rev, dom, TRUE, TRUE).dom, w)
                = wrapperState(dom, w)
        /\ (cfg.fields[w].hasInput /\ ~cfg.fields[w].hasLabel) =>
            /\ validateInput(rev, dom, w, TRUE, TRUE).ret = ~fails(w)
            /\ fails(w) => styledIn(validateInput(rev, dom, w, TRUE, TRUE).dom, w)
            /\ ~validateInput(rev, dom, w, TRUE, TRUE).dom.labelShown[w]
            /\ ~validateInput(rev, dom, w, TRUE, TRUE).dom.customText[w]
            /\ (lastEvent.type = "submit" /\ fails(w)) => errorStyled(w)

\* a submit over a form with an input-less wrapper was cancelled because of a
\* failing field that has no error label; that field carries the error style
C16_Witness ==
    /\ lastEvent.type = "submit"
    /\ submitResult.cancelled
    /\ \E w, u \in Wrappers :
        /\ ~cfg.fields[w].hasInput
        /\ cfg.fields[u].hasInput /\ ~cfg.fields[u].hasLabel
        /\ fails(u) /\ errorStyled(u) /\ ~dom.labelShown[u]
        /\ \A x \in Wrappers \ {u} : ~fails(x)

----------------------------------------------------------------------------
(* The scroll target of a cancelled submit *)

\* the element of wrapper w that takes the error style
styleElement(w) ==
    IF isCheckboxWrapper(w) /\ cfg.fields[w].hasVisual THEN "visual"
    ELSE "input"

\* element el of wrapper w carries is-error
carriesError(w, el) ==
    IF el = "visual" THEN dom.visualError[w] ELSE dom.inputError[w]

\* no element before element el of wrapper w, in document order, carries
\* is-error
noErrorBefore(w, el) ==
    /\ \A u \in Wrappers :
            u < w => (~dom.visualError[u] /\ ~dom.inputError[u])
    /\ el = "input" => ~dom.visualError[w]

----------------------------------------------------------------------------
(* The earliest revision, src/unnamed/part_000 (rev "A"): no touched flag,  *)
(* no forceShowErrors, input and blur listeners on every input.            *)
(***************************************************************************)

\* validateLength, rev A: input.value.trim().length >= minLength
validateLengthA(value, minLength) ==
    ~minLength.nan /\ Len(trim(value)) >= minLength.n

\* the i-th character of s, or "" past its end
charAt(s, i) == IF i \in 1..Len(s) THEN s[i] ELSE ""

\* position after an optional character of class at position i of s
skipOptional(s, i, class) == IF charAt(s, i) \in class THEN i + 1 ELSE i

\* s holds digits at positions i .. i+2
threeDigits(s, i) == \A k \in i..(i + 2) : charAt(s, k) \in Digits

\* [-\s.] of phoneRegex
PhoneSeparators == {"-", "."} \cup Whitespace

\* phoneRegex /^[+]?[(]?[0-9]{3}[)]?[-\s.]?[0-9]{3}[-\s.]?[0-9]{4,6}$/ from
\* position i of s, which is where the first group of digits must start
phoneGroups(s, i) ==
    /\ threeDigits(s, i)
    /\ threeDigits(s, skipOptional(s, skipOptional(s, i + 3, {")"}),
                                   PhoneSeparators))
    /\ Len(s) + 1
         - skipOptional(s,
              skipOptional(s, skipOptional(s, i + 3, {")"}), PhoneSeparators)
                + 3,
              PhoneSeparators) \in 4..6
    /\ \A k \in skipOptional(s,
                  skipOptional(s, skipOptional(s, i + 3, {")"}),
                               PhoneSeparators) + 3,
                  PhoneSeparators)..Len(s) : s[k] \in Digits

\* validatePhone, rev A: phoneRegex.test(input.value.trim())
validatePhoneA(value) ==
    phoneGroups(trim(value),
                skipOptional(trim(value),
                             skipOptional(trim(value), 1, {"+"}), {"("}))

\* the verdict of validateInput, rev A
verdictA(d, w) ==
    IF cfg.fields[w].hasCheckbox THEN d.checked[w]
    ELSE IF cfg.fields[w].type = "email" THEN validateEmail(d.value[w])
    ELSE IF cfg.fields[w].hasPhone THEN validatePhoneA(d.value[w])
    ELSE IF cfg.fields[w].hasLength
    THEN validateLengthA(d.value[w],
                         parseInt(attrOrZero(cfg.fields[w].lengthAttr)))
    ELSE TRUE

\* validateInput, rev A: the class toggle on .w-checkbox-input, then
\* showError or hideError whenever showErrors is set
validateInputA(d, w, showErrors) ==
    IF ~cfg.fields[w].hasInput THEN Result(d, TRUE)
    ELSE renderB(d, w, showErrors, verdictA(d, w))

\* the forEach of validateForm, rev A, from wrapper w on
RECURSIVE validateEachA(_, _, _)
validateEachA(acc, w, showErrors) ==
    IF w > Len(cfg.fields) THEN acc
    ELSE validateEachA(
            foldVerdict(acc.ret, validateInputA(acc.dom, w, showErrors)),
            w + 1, showErrors)

\* validateForm, rev A
validateFormA(d, showErrors) ==
    toggleSubmit(validateEachA(Result(d, TRUE), 1, showErrors))

\* the body of the input and blur listeners, rev A
revalidateA(d, w) ==
    validateFormA(validateInputA(d, w, TRUE).dom, TRUE).dom

\* validateForms, rev A
LoadA ==
    /\ pc = "load"
    /\ dom' = validateFormA(clearErrors(dom), FALSE).dom
    /\ pc' = "ready"
    /\ lastEvent' = Event("load", 0)
    /\ UNCHANGED <<rev, cfg, timers, forceShown, submitResult>>

\* the user edits a text input; the input listener runs
InputA(w, v) ==
    /\ pc = "ready"
    /\ isTextInput(cfg.fields[w])
    /\ dom' = revalidateA([dom EXCEPT !.value[w] = v], w)
    /\ lastEvent' = Event("input", w)
    /\ UNCHANGED <<rev, cfg, timers, pc, forceShown, submitResult>>

\* the user toggles a checkbox; the input listener runs
ClickA(w) ==
    /\ pc = "ready"
    /\ isCheckboxInput(cfg.fields[w])
    /\ dom' = revalidateA([dom EXCEPT !.checked[w] = ~@], w)
    /\ lastEvent' = Event("click", w)
    /\ UNCHANGED <<rev, cfg, timers, pc, forceShown, submitResult>>

\* the blur listener
BlurA(w) ==
    /\ pc = "ready"
    /\ cfg.fields[w].hasInput
    /\ dom' = revalidateA(dom, w)
    /\ lastEvent' = Event("blur", w)
    /\ UNCHANGED <<rev, cfg, timers, pc, forceShown, submitResult>>

\* the submit listener, rev A
SubmitA ==
    /\ pc = "ready"
    /\ \E s \in {submitOutcome(validateFormA(dom, TRUE))} :
           /\ dom' = s.dom
           /\ submitResult' = [cancelled |-> s.cancelled, target |-> s.target]
    /\ forceShown' = TRUE
    /\ lastEvent' = Event("submit", 0)
    /\ UNCHANGED <<rev, cfg, timers, pc>>

InitA ==
    /\ rev = "A"
    /\ cfg \in Forms
    /\ \E v \in ValuesOf(cfg) :
       \E ch \in FlagsOn(cfg, checkboxesOf(cfg)) :
       \E ls \in FlagsOn(cfg, labelsOf(cfg)) :
            dom = Markup(cfg, v, ch, [w \in 1..Len(cfg.fields) |-> FALSE],
                         [w \in 1..Len(cfg.fields) |-> FALSE], ls)
    /\ timers = <<>>
    /\ pc = "load"
    /\ lastEvent = Event("none", 0)
    /\ forceShown = FALSE
    /\ submitResult = [cancelled |-> FALSE, target |-> NoTarget]

NextA ==
    \/ LoadA
    \/ \E w \in Wrappers : \E v \in SampleValues : InputA(w, v)
    \/ \E w \in Wrappers : ClickA(w)
    \/ \E w \in Wrappers : BlurA(w)
    \/ SubmitA

SpecA == InitA /\ [][NextA]_vars

\* C18 (as stated): in rev A, the first input or blur event after page load,
\* when no field has been interacted with yet and no submit has been
\* attempted, leaves the error label of every other field hidden.
C18_NoLabelOnOtherField ==
    [][ ( /\ rev = "A"
          /\ lastEvent.type = "load"
          /\ lastEvent'.type \in {"input", "blur"} )
        => \A u \in Labelled :
                u # lastEvent'.w => ~dom'.labelShown[u] ]_vars

----------------------------------------------------------------------------
(* Clearing a displayed error *)

\* C19 (as stated): in rev C, once the handler of a user event on a field
\* (input on a text field the user has focused, change or the deferred
\* callback of a label click on a checkbox) has completed and nothing is
\* pending, a field that is now valid shows no error label and carries no
\* error style.
C19_ValidAfterOwnEventShowsNoError ==
    \A w \in Wrappers :
        ( /\ rev = "C" /\ quiescent
          /\ lastEvent \in { Event("input", w), Event("change", w),
                             Event("timeout", w) }
          /\ cfg.fields[w].hasInput
          /\ isTextInput(cfg.fields[w]) => dom.touched[w]
          /\ ~fails(w) )
        => (~dom.labelShown[w] /\ ~errorStyled(w))

----------------------------------------------------------------------------
(* Error style and error label of a checkbox, rev B *)

\* C20 (as stated): in rev B, in every state after page load, the checkbox
\* visual of a checkbox field carries is-error if and only if the wrapper's
\* error label is visible.
C20_CheckboxStyleMatchesLabel ==
    \A w \in Labelled :
        ( /\ rev = "B" /\ pc = "ready"
          /\ declaresCheckbox(w)
          /\ isCheckboxWrapper(w) /\ cfg.fields[w].hasVisual )
        => (dom.visualError[w] <=> dom.labelShown[w])

----------------------------------------------------------------------------
(* Frame of a validation pass *)

\* the error UI of wrapper w in state d: label visibility and is-error on
\* the input and on the checkbox visual
errorUI(d, w) == <<d.labelShown[w], d.inputError[w], d.visualError[w]>>

\* C21 (as stated): a step that runs the input, blur, change or deferred
\* click handler of one field leaves the error UI of every other field that
\* is untouched as it was; and in every state of the loaded page a
\* validateForm pass with showErrors = false changes the error UI of no field.
C21_UntouchedErrorUIUnchanged ==
    [][ /\ ( /\ pc = "ready"
             /\ lastEvent'.type \in {"input", "blur", "change", "timeout"} )
           => \A g \in Wrappers :
                (g # lastEvent'.w /\ ~dom.touched[g])
                    => errorUI(dom', g) = errorUI(dom, g)
        /\ pc = "ready"
           => \A g \in Wrappers :
                errorUI(validateForm(rev, dom, FALSE, FALSE).dom, g)
                    = errorUI(dom, g) ]_vars

----------------------------------------------------------------------------
(* The phone input sanitiser *)

\* the texts the input listener of a field with attributes f may find in the
\* field when the present value is s: s itself, or s with one key inserted
rawTexts(f, s) ==
    {s} \cup { insertAt(s, i, c) : i \in 1..(Len(s) + 1), c \in Keys(f) }

\* C22: for every text the phone input listener can find in the field, the
\* sanitiser keeps exactly the digits, '+', '-', '(', ')', '.' and
\* whitespace in their order, so the digit count and the phone verdict are
\* those of the raw text, and sanitising twice equals sanitising once; what
\* an input event leaves in a phone field is a fixed point of the sanitiser.
C22_SanitiserKeepsVerdict ==
    \A w \in Wrappers :
        (isTextInput(cfg.fields[w]) /\ cfg.fields[w].hasPhone) =>
            /\ \A v \in rawTexts(cfg.fields[w], dom.value[w]) :
                /\ digitCount(sanitizePhone(v)) = digitCount(v)
                /\ validatePhone(rev, sanitizePhone(v)) = validatePhone(rev, v)
                /\ sanitizePhone(sanitizePhone(v)) = sanitizePhone(v)
                /\ Len(sanitizePhone(v))
                    = Cardinality({ i \in 1..Len(v) : v[i] # "x" })
            /\ lastEvent = Event("input", w)
                => sanitizePhone(dom.value[w]) = dom.value[w]

\* an input event has left digits and separators in the phone field that
\* pass in rev C and fail in rev B, and the next key may be a letter
C22_Witness ==
    /\ pc = "ready"
    /\ lastEvent = Event("input", 1)
    /\ cfg.fields[1].hasPhone
    /\ digitCount(dom.value[1]) = 5
    /\ Len(dom.value[1]) = 7
    /\ ~fails(1) <=> rev = "C"
    /\ \E v \in rawTexts(cfg.fields[1], dom.value[1]) :
            sanitizePhone(v) # v

====
